---- MODULE Spec2Model ----
(***************************************************************************)
(* A model of the notebook attention-from-scratch.ipynb: the four          *)
(* versions of causal aggregation (nested loops, triangular matrix         *)
(* multiply, masked softmax, one head of self-attention) and the keepdim   *)
(* tangent, executed statement by statement, plus the notebook kernel's    *)
(* namespace under an arbitrary order of cell executions.                  *)
(*                                                                         *)
(* Numbers are exact extended rationals <<n, d>>: d > 0 is the fraction    *)
(* n/d in lowest terms, <<-1, 0>> is -inf, <<1, 0>> is +inf and <<0, 0>>   *)
(* is nan.  Floating-point rounding is not modelled.  Tensors are          *)
(* functions indexed from 0, as in the source.                             *)
(*                                                                         *)
(* Every data variable holds one value per run r \in Runs: the program is  *)
(* executed in lockstep on two inputs, the second differing from the first *)
(* in at most one entry, so that statements about what an output does not  *)
(* depend on can be checked.  The layers' weights are shared by both runs. *)
(***************************************************************************)
EXTENDS Integers, Sequences, FiniteSets, TLC

\* ------------------------------------------------------------------ bounds
\* Shape of the input (the notebook uses 4, 8, 2) and the number of sampled
\* inputs and layer initialisations.
B == 2
T == 3
C == 1
MaxSeed == 3
MaxWSeed == 1
\* Number of cell executions in a kernel session with a free execution order.
MaxRuns == 11

\* head_size of the self-attention cell; head_size**-0.5 = 1/4.
head_size == 16

Runs == 1..2
None == <<>>

\* ------------------------------------------------------ extended rationals
RECURSIVE Gcd(_, _)
Gcd(a, b) == IF b = 0 THEN a ELSE Gcd(b, a % b)

Abs(n) == IF n < 0 THEN -n ELSE n
Sgn(n) == IF n < 0 THEN -1 ELSE IF n = 0 THEN 0 ELSE 1

Rat(n, d) ==
    IF d = 0 THEN <<Sgn(n), 0>>
    ELSE LET g == Gcd(Abs(n), Abs(d)) IN <<Sgn(d) * (n \div g), Abs(d) \div g>>

Zero == <<0, 1>>
One == <<1, 1>>
NegInf == <<-1, 0>>
NaN == <<0, 0>>

IsFinite(a) == a[2] # 0
IsNaN(a) == a = NaN

\* a + b; inf + (-inf) and anything with nan is nan.
Add(a, b) ==
    IF a = Zero /\ IsFinite(b) THEN b
    ELSE IF b = Zero /\ IsFinite(a) THEN a
    ELSE IF IsFinite(a) /\ IsFinite(b)
    THEN LET g == Gcd(a[2], b[2])
         IN Rat(a[1] * (b[2] \div g) + b[1] * (a[2] \div g), (a[2] \div g) * b[2])
    ELSE IF IsNaN(a) \/ IsNaN(b) THEN NaN
    ELSE IF IsFinite(a) THEN b
    ELSE IF IsFinite(b) THEN a
    ELSE IF a = b THEN a ELSE NaN

\* a * b, reduced crosswise before multiplying; 0 * inf is nan.
Mul(a, b) ==
    IF IsFinite(a) /\ IsFinite(b) /\ (a[1] = 0 \/ b[1] = 0) THEN Zero
    ELSE IF IsFinite(a) /\ IsFinite(b)
    THEN LET g1 == Gcd(Abs(a[1]), b[2])
             g2 == Gcd(Abs(b[1]), a[2])
         IN <<(a[1] \div g1) * (b[1] \div g2), (a[2] \div g2) * (b[2] \div g1)>>
    ELSE <<Sgn(a[1]) * Sgn(b[1]), 0>>

\* 1 / a for a finite or infinite; 1/0 is +inf, 1/inf is 0.
Inv(a) ==
    IF IsNaN(a) THEN NaN
    ELSE IF ~IsFinite(a) THEN Zero
    ELSE IF a[1] = 0 THEN <<1, 0>>
    ELSE <<Sgn(a[1]) * a[2], Abs(a[1])>>

\* a / b; 0/0 and inf/inf are nan.
Div(a, b) ==
    IF IsFinite(a) /\ IsFinite(b) /\ a[1] = 0 /\ b[1] = 0 THEN NaN
    ELSE IF ~IsFinite(a) /\ ~IsFinite(b) THEN NaN
    ELSE IF ~IsFinite(a) /\ IsFinite(b) /\ b[1] = 0 THEN a
    ELSE Mul(a, Inv(b))

\* Sum of f[i] for i in lo..hi (Zero when the range is empty).
RECURSIVE SumRange(_, _, _)
SumRange(f, lo, hi) == IF hi < lo THEN Zero ELSE Add(SumRange(f, lo, hi - 1), f[hi])

\* --------------------------------------------------------- tensor library
\* torch.zeros(n, m) and torch.ones(n, m)
zeros2(n, m) == [i \in 0..n-1 |-> [j \in 0..m-1 |-> Zero]]
ones2(n, m) == [i \in 0..n-1 |-> [j \in 0..m-1 |-> One]]
\* torch.zeros(n, m, p)
zeros3(n, m, p) == [i \in 0..n-1 |-> zeros2(m, p)]

\* Number of rows of a tensor indexed 0..n-1.
Rows(m) == Cardinality(DOMAIN m)

\* The triangle strictly below the diagonal, torch.tril(m, diagonal=-1).
torch_tril_strict(m) ==
    [i \in DOMAIN m |-> [j \in DOMAIN m[i] |-> IF j < i THEN m[i][j] ELSE Zero]]

\* torch.tril(m): keeps the entries on and below the diagonal.
torch_tril(m) ==
    [i \in DOMAIN m |-> [j \in DOMAIN m[i] |-> IF j <= i THEN m[i][j] ELSE Zero]]

\* m[:n] : the first n rows.
SliceTo(m, n) == [s \in 0..n-1 |-> m[s]]

\* torch.mean(m, dim=0) of a (n, C) matrix: the column means (nan when n = 0).
torch_mean0(m, cols) ==
    [c \in 0..cols-1 |->
        Div(SumRange([s \in DOMAIN m |-> m[s][c]], 0, Rows(m) - 1), Rat(Rows(m), 1))]

\* (n, k) @ (k, p)
MatMul(a, m) ==
    [i \in DOMAIN a |->
        [j \in DOMAIN m[0] |->
            SumRange([s \in DOMAIN m |-> Mul(a[i][s], m[s][j])], 0, Rows(m) - 1)]]

\* (n, k) @ (B, k, p): the matrix is broadcast over the batch dimension.
BMatMulBroadcast(a, xs) == [bb \in DOMAIN xs |-> MatMul(a, xs[bb])]

\* The first batch element's matrix used for every batch element.
BMatMul_first(as, xs) == [bb \in DOMAIN xs |-> MatMul(as[0], xs[bb])]

\* (B, n, k) @ (B, k, p): one product per batch element.
BMatMul(as, xs) == [bb \in DOMAIN xs |-> MatMul(as[bb], xs[bb])]

\* m.transpose(-1, -2) of a (B, n, k) tensor.
Transpose(xs) ==
    [bb \in DOMAIN xs |->
        [j \in DOMAIN xs[bb][0] |-> [i \in DOMAIN xs[bb] |-> xs[bb][i][j]]]]

\* t.sum(1) and t.sum(dim=1, keepdim=True) of a matrix: the row sums, as a
\* tensor of shape (n) or, with keepdim, of shape (n, 1).
sum_dim1(m, keepdim) ==
    LET rowsum(i) == SumRange(m[i], 0, Rows(m[i]) - 1)
    IN IF keepdim
       THEN [shape |-> <<Rows(m), 1>>, data |-> [i \in DOMAIN m |-> [j \in 0..0 |-> rowsum(i)]]]
       ELSE [shape |-> <<Rows(m)>>, data |-> [i \in DOMAIN m |-> rowsum(i)]]

\* Shapes aligned from the first dimension instead of the last.
BroadcastAt_leading(s, i, j) ==
    IF Len(s.shape) = 1
    THEN s.data[IF s.shape[1] = 1 THEN 0 ELSE i]
    ELSE s.data[IF s.shape[1] = 1 THEN 0 ELSE i][IF s.shape[2] = 1 THEN 0 ELSE j]

\* Entry (i, j) of a tensor of rank 1 or 2 broadcast against a matrix: shapes
\* are aligned from the last dimension, and a dimension of size 1 is repeated.
BroadcastAt(s, i, j) ==
    IF Len(s.shape) = 1
    THEN s.data[IF s.shape[1] = 1 THEN 0 ELSE j]
    ELSE s.data[IF s.shape[1] = 1 THEN 0 ELSE i][IF s.shape[2] = 1 THEN 0 ELSE j]

\* m / s for a matrix m and a broadcast divisor s.
DivBroadcast(m, s) ==
    [i \in DOMAIN m |-> [j \in DOMAIN m[i] |-> Div(m[i][j], BroadcastAt(s, i, j))]]

\* m == 0, elementwise.
EqZero(m) == [i \in DOMAIN m |-> [j \in DOMAIN m[i] |-> m[i][j] = Zero]]

\* m.masked_fill(mask, value) of a matrix.
masked_fill(m, mask, value) ==
    [i \in DOMAIN m |-> [j \in DOMAIN m[i] |-> IF mask[i][j] THEN value ELSE m[i][j]]]

\* The same with the (T, T) mask broadcast over the batch dimension.
masked_fill_batch(ms, mask, value) == [bb \in DOMAIN ms |-> masked_fill(ms[bb], mask, value)]

\* e**(1/4) as a fraction (1.2857 for 1.2840): the scores of the notebook are
\* multiples of head_size**-0.5 = 1/4.
EulerQ == <<9, 7>>

RECURSIVE Pow(_, _)
Pow(a, n) == IF n = 0 THEN One ELSE Mul(a, Pow(a, n - 1))

\* exp(a): 0 at -inf, EulerQ**(4a) at a finite a (a multiple of 1/4).
Exp(a) ==
    IF IsNaN(a) THEN NaN
    ELSE IF ~IsFinite(a) THEN (IF a = NegInf THEN Zero ELSE a)
    ELSE LET n == (4 * a[1]) \div a[2]
         IN IF n >= 0 THEN Pow(EulerQ, n) ELSE Inv(Pow(EulerQ, -n))

\* The exponentials left unnormalised.
SoftmaxRow_unnormalised(row) == [j \in DOMAIN row |-> Exp(row[j])]

\* softmax of one row: exp(row[j]) / sum over j of exp(row[j]).
SoftmaxRow(row) ==
    LET e == [j \in DOMAIN row |-> Exp(row[j])]
        total == SumRange(e, 0, Rows(row) - 1)
    IN [j \in DOMAIN row |-> Div(e[j], total)]

\* The softmax taken over dim=0, down the rows of each column.
softmax_dim0(m) ==
    [i \in DOMAIN m |-> [j \in DOMAIN m[i] |->
        SoftmaxRow([ii \in DOMAIN m |-> m[ii][j]])[i]]]

\* torch.softmax(m, dim=1) of a matrix: over the columns of each row.
softmax(m) == [i \in DOMAIN m |-> SoftmaxRow(m[i])]

\* F.softmax(ms, dim=-1) of a (B, T, T) tensor.
softmax_batch(ms) == [bb \in DOMAIN ms |-> softmax(ms[bb])]

\* m * s for a (B, n, k) tensor and a scalar.
Scale(ms, s) ==
    [bb \in DOMAIN ms |-> [i \in DOMAIN ms[bb] |->
        [j \in DOMAIN ms[bb][i] |-> Mul(ms[bb][i][j], s)]]]

\* n ** -0.5 for a perfect square n.
InvSqrt(n) == Rat(1, CHOOSE s \in 0..n : s * s = n)

\* torch.allclose(a, b) with the default rtol = 1e-05 and atol = 1e-08 on
\* finite entries: |a - b| <= atol + rtol * |b|, that is, with a - b = p/q
\* and |b| = u/v, p*v*10^8 <= q*v + 1000*u*q.
Close(a, bv) ==
    /\ IsFinite(a) /\ IsFinite(bv)
    /\ LET d == Add(a, <<-bv[1], bv[2]>>)
       IN Abs(d[1]) * bv[2] <= (d[2] * bv[2] + 1000 * Abs(bv[1]) * d[2]) \div 100000000

allclose(as, bs) ==
    \A bb \in DOMAIN as : \A i \in DOMAIN as[bb] : \A j \in DOMAIN as[bb][i] :
        Close(as[bb][i][j], bs[bb][i][j])

\* nn.Linear(C, head_size, bias=False): a (head_size, C) weight, here one
\* sampled initialisation: a single non-zero row of +1 or of -1.
Linear(nin, nout, wseed) ==
    [h \in 0..nout-1 |-> [c \in 0..nin-1 |->
        IF h = wseed \div 2 THEN (IF wseed % 2 = 0 THEN One ELSE <<-1, 1>>) ELSE Zero]]

\* A layer that returns its input.
Forward_identity(w, xs) == xs

\* layer(xx) = xx @ weight^T on a (B, T, C) tensor.
Forward(w, xs) ==
    [bb \in DOMAIN xs |-> [i \in DOMAIN xs[bb] |-> [h \in DOMAIN w |->
        SumRange([c \in DOMAIN w[h] |-> Mul(xs[bb][i][c], w[h][c])], 0, Rows(w[h]) - 1)]]]

\* -------------------------------------------------------------- the inputs
\* torch.rand(B, T, C) under a seed: entry number idx of the stream of a
\* linear congruential generator modulo 64, reduced to its leading bit.
RECURSIVE Lcg(_, _)
Lcg(seed, i) == IF i = 0 THEN (seed * 11 + 3) % 64 ELSE (13 * Lcg(seed, i - 1) + 7) % 64

Flat(bb, t, c) == (bb * T + t) * C + c

rand(seed) ==
    [bb \in 0..B-1 |-> [t \in 0..T-1 |-> [c \in 0..C-1 |->
        Rat(Lcg(seed, Flat(bb, t, c)) \div 32, 1)]]]

\* The input with entry (bb, t, c) replaced by 1 - entry.
Flip(xx, bb, t, c) ==
    [xx EXCEPT ![bb][t][c] = Rat(1 - xx[bb][t][c][1], 1)]

\* torch.randn(n) under a seed: n entries of the same stream, centred, so that
\* both signs occur.
randn(n, seed) == [i \in 0..n-1 |-> Rat((Lcg(seed, i) \div 16) - 2, 1)]

\* Python's range(start, stop, step) for step > 0, as a list indexed from 0:
\* start, start + step, ... below stop.
range(start, stop, step) ==
    LET len == IF stop > start THEN (stop - start + step - 1) \div step ELSE 0
    IN [i \in 0..len-1 |-> start + i * step]

\* The slice l[::-1]: the list in reverse order.
reversed(l) == LET len == Cardinality(DOMAIN l) IN [i \in 0..len-1 |-> l[len - 1 - i]]

\* x * i for a 1-D tensor x and a Python integer i.
mul_scalar(xs, i) == [j \in DOMAIN xs |-> Mul(xs[j], Rat(i, 1))]

\* torch.stack(list): the tensors of the list become the rows, in list order.
stack(list) == [i \in DOMAIN list |-> [j \in DOMAIN list[i] |-> list[i][j]]]

VARIABLES
    pc,         \* the statement to execute next
    x,          \* the input (B, T, C)
    xbow1, xbow2, xbow3,
    wei, tril,
    b, t,       \* loop variables of Version 1
    Out,        \* the values displayed by cells 9 and 12
    query, key, value,  \* the layers' weights
    q, k, v, out,
    sum_incorrect, sum_correct,
    scale, x_scaled,    \* cell 17: the scaling factors and the scaled copies of x
    env,        \* the kernel's namespace: name -> the cell that bound it (0: unbound)
    nruns,      \* cell executions so far, in the free-order session
    lastCell,   \* the cell executed last (0: none)
    lastForeign,\* the names it read that another cell had bound
    lastError,  \* whether it stopped with a NameError
    inOrder     \* the executions so far are the first nruns code cells, top to bottom

vars == <<pc, x, xbow1, xbow2, xbow3, wei, tril, b, t, Out,
          query, key, value, q, k, v, out, sum_incorrect, sum_correct,
          scale, x_scaled,
          env, nruns, lastCell, lastForeign, lastError, inOrder>>

data == <<pc, x, xbow1, xbow2, xbow3, wei, tril, b, t, Out,
          query, key, value, q, k, v, out, sum_incorrect, sum_correct,
          scale, x_scaled>>
kern == <<env, nruns, lastCell, lastForeign, lastError, inOrder>>

\* ------------------------------------------- the cells as name accesses
\* Each code cell as its statements in order, each with the names it reads
\* and the names it binds (builtins such as range and print are always bound).
St(reads, writes) == [r |-> reads, w |-> writes]

Cell2Stmts == <<
    St({}, {"torch"}),                                  \* import torch
    St({"torch"}, {}),                                  \* torch.manual_seed(42)
    St({}, {"B", "T", "C"}),                            \* B, T, C = 4, 8, 2
    St({"torch", "B", "T", "C"}, {"x"}) >>              \* x = torch.rand(B, T, C)

\* Cell 4 made self-contained: it imports torch and creates B, T, C and x itself.
Cell4Stmts_fresh == <<
    St({}, {"torch"}), St({}, {"B", "T", "C"}), St({"torch", "B", "T", "C"}, {"x"}),
    St({"torch", "B", "T", "C"}, {"xbow1"}), St({"B"}, {"b"}), St({"T"}, {"t"}),
    St({"x", "b", "t"}, {"xprev"}), St({"torch", "xprev"}, {"xprev_mean"}),
    St({"xbow1", "b", "t", "xprev_mean"}, {}) >>

Cell4Stmts == <<
    St({"torch", "B", "T", "C"}, {"xbow1"}),            \* xbow1 = torch.zeros(B, T, C)
    St({"B"}, {"b"}),                                   \* for b in range(B):
    St({"T"}, {"t"}),                                   \* for t in range(T):
    St({"x", "b", "t"}, {"xprev"}),                     \* xprev = x[b, :t+1, ]
    St({"torch", "xprev"}, {"xprev_mean"}),             \* xprev_mean = torch.mean(xprev, dim=0)
    St({"xbow1", "b", "t", "xprev_mean"}, {}) >>        \* xbow1[b, t] = xprev_mean

Cell5Stmts == <<
    St({"x"}, {}), St({"xbow1"}, {}),                   \* print(x.shape), print(xbow1.shape)
    St({"x"}, {}), St({"xbow1"}, {}) >>                 \* print(x[0,:3]), print(xbow1[0,:3])

Cell8Stmts == <<
    St({"torch", "T"}, {"wei"}),                        \* wei = torch.tril(torch.ones(T, T))
    St({"wei"}, {"wei"}),                               \* wei = wei / wei.sum(dim=1, keepdim=True)
    St({"wei", "x"}, {"xbow2"}),                        \* xbow2 = wei @ x
    St({"wei"}, {}) >>                                  \* print(wei)

Cell9Stmts == << St({"torch", "xbow1", "xbow2"}, {}) >> \* torch.allclose(xbow1, xbow2)

Cell11Stmts == <<
    St({"torch", "T"}, {"tril"}),                       \* tril = torch.tril(torch.ones(T, T))
    St({"torch", "T"}, {"wei"}),                        \* wei = torch.zeros(T, T)
    St({"wei", "tril"}, {"wei"}),                       \* wei = wei.masked_fill(tril == 0, ...)
    St({"wei"}, {}),                                    \* print(wei)
    St({"torch", "wei"}, {"wei"}),                      \* wei = torch.softmax(wei, dim=1)
    St({"wei"}, {}),                                    \* print(wei)
    St({"wei", "x"}, {"xbow3"}) >>                      \* xbow3 = wei @ x

Cell12Stmts == << St({"torch", "xbow1", "xbow3"}, {}) >> \* torch.allclose(xbow1, xbow3)

\* Cell 14 without its import of torch.nn.functional.
Cell14Stmts_noF == <<
    St({}, {"nn"}), St({}, {"head_size"}),
    St({"nn", "C", "head_size"}, {"query"}), St({"nn", "C", "head_size"}, {"key"}),
    St({"nn", "C", "head_size"}, {"value"}),
    St({"query", "x"}, {"q"}), St({"key", "x"}, {"k"}), St({"value", "x"}, {"v"}),
    St({"q", "k", "head_size"}, {"wei"}), St({"torch", "T"}, {"tril"}),
    St({"wei", "tril"}, {"wei"}), St({"F", "wei"}, {"wei"}),
    St({"wei", "v"}, {"out"}), St({"out"}, {}) >>

Cell14Stmts == <<
    St({}, {"nn"}),                                     \* import torch.nn as nn
    St({}, {"F"}),                                      \* import torch.nn.functional as F
    St({}, {"head_size"}),                              \* head_size = 16
    St({"nn", "C", "head_size"}, {"query"}),            \* query = nn.Linear(C, head_size, ...)
    St({"nn", "C", "head_size"}, {"key"}),              \* key = nn.Linear(C, head_size, ...)
    St({"nn", "C", "head_size"}, {"value"}),            \* value = nn.Linear(C, head_size, ...)
    St({"query", "x"}, {"q"}),                          \* q = query(x)
    St({"key", "x"}, {"k"}),                            \* k = key(x)
    St({"value", "x"}, {"v"}),                          \* v = value(x)
    St({"q", "k", "head_size"}, {"wei"}),               \* wei = q @ k.transpose(-1, -2) * head_size**-0.5
    St({"torch", "T"}, {"tril"}),                       \* tril = torch.tril(torch.ones(T, T))
    St({"wei", "tril"}, {"wei"}),                       \* wei = wei.masked_fill(tril == 0, ...)
    St({"F", "wei"}, {"wei"}),                          \* wei = F.softmax(wei, dim=-1)
    St({"wei", "v"}, {"out"}),                          \* out = wei @ v
    St({"out"}, {}) >>                                  \* out.shape

Cell16Stmts == <<
    St({"torch", "B", "T", "head_size"}, {"k"}),        \* k = torch.randn(B, T, head_size)
    St({"torch", "B", "T", "head_size"}, {"q"}),        \* q = torch.randn(B, T, head_size)
    St({"q", "k"}, {"wei_noscale"}),                    \* wei_noscale = q @ k.transpose(-1, -2)
    St({"q", "k", "head_size"}, {"wei_scale"}),         \* wei_scale = ... * head_size**-0.5
    St({"k", "q", "wei_noscale"}, {}),                  \* print(...)
    St({"k", "q", "wei_scale"}, {}) >>                  \* print(...)

Cell17Stmts == <<
    St({"torch"}, {}),                                  \* torch.manual_seed(42)
    St({"torch"}, {"x"}),                               \* x = torch.randn(10,)
    St({}, {"scale"}),                                  \* scale = list(range(1,6,1))[::-1]
    St({"torch", "x", "scale"}, {"x_scaled"}),          \* x_scaled = torch.stack([x * i for i in scale])
    St({"x_scaled"}, {"vars"}),                         \* vars = [var.item() for var in x_scaled.var(dim=1)]
    St({"F", "x_scaled"}, {"x_softmaxes"}),             \* x_softmaxes = F.softmax(x_scaled, dim=1)
    St({}, {"plt"}),                                    \* import matplotlib.pyplot as plt
    St({"plt"}, {"fig", "ax"}),                         \* fig, ax = plt.subplots()
    St({"ax", "x_softmaxes"}, {}),                      \* ax.imshow(x_softmaxes.numpy(), ...)
    St({"ax", "vars"}, {}),                             \* ax.set_yticks(range(len(vars)))
    St({"ax", "vars"}, {}),                             \* ax.set_yticklabels([... for var in vars])
    St({"ax"}, {}), St({"ax"}, {}), St({"ax"}, {}) >>   \* ax.set_xlabel, set_ylabel, set_title

Cell19Stmts == <<
    St({"torch", "T"}, {"wei"}),                        \* wei = torch.tril(torch.ones(T, T))
    St({"wei"}, {"sum_incorrect"}),                     \* sum_incorrect = wei.sum(1)
    St({"wei"}, {"sum_correct"}),                       \* sum_correct = wei.sum(1, keepdim=True)
    St({"sum_incorrect"}, {}), St({"sum_correct"}, {}), \* print(shape), print(shape)
    St({"sum_incorrect"}, {}), St({"sum_correct"}, {}) >>

\* The code cells, numbered by their position in the notebook.
CodeCells == {2, 4, 5, 8, 9, 11, 12, 14, 16, 17, 19}

Stmts(c) ==
    CASE c = 2 -> Cell2Stmts [] c = 4 -> Cell4Stmts [] c = 5 -> Cell5Stmts
      [] c = 8 -> Cell8Stmts [] c = 9 -> Cell9Stmts [] c = 11 -> Cell11Stmts
      [] c = 12 -> Cell12Stmts [] c = 14 -> Cell14Stmts [] c = 16 -> Cell16Stmts
      [] c = 17 -> Cell17Stmts [] c = 19 -> Cell19Stmts

Names ==
    UNION { UNION { Stmts(c)[i].r \cup Stmts(c)[i].w : i \in DOMAIN Stmts(c) } : c \in CodeCells }

\* Executing the statements of cell c from statement i on, in namespace e,
\* having read the foreign bindings f: a statement that reads an unbound name
\* raises NameError, and the cell stops there with its earlier bindings kept.
RECURSIVE Exec(_, _, _, _)
Exec(c, i, e, f) ==
    IF i > Len(Stmts(c)) THEN [env |-> e, foreign |-> f, error |-> FALSE]
    ELSE LET st == Stmts(c)[i]
         IN IF \E n \in st.r : e[n] = 0
            THEN [env |-> e, foreign |-> f, error |-> TRUE]
            ELSE Exec(c, i + 1,
                      [n \in Names |-> IF n \in st.w THEN c ELSE e[n]],
                      f \cup {n \in st.r : e[n] # c})

attn == <<query, key, value, q, k, v, out>>
sums == <<sum_incorrect, sum_correct>>

\* A fresh kernel: nothing is bound.
Init ==
    /\ pc = "c2"
    /\ x = None
    /\ xbow1 = None /\ xbow2 = None /\ xbow3 = None
    /\ wei = None /\ tril = None
    /\ b = 0 /\ t = 0
    /\ Out = [c \in {9, 12} |-> None]
    /\ query = None /\ key = None /\ value = None
    /\ q = None /\ k = None /\ v = None /\ out = None
    /\ sum_incorrect = None /\ sum_correct = None
    /\ scale = None /\ x_scaled = None
    /\ env = [n \in Names |-> 0]
    /\ nruns = 0
    /\ lastCell = 0 /\ lastForeign = {} /\ lastError = FALSE
    /\ inOrder = TRUE

\* ------------------------------------------------------------------ cell 2
\* x = torch.rand(B, T, C); the second run's input differs from the first in
\* at most one entry.
Cell2 ==
    /\ pc = "c2"
    /\ \E seed \in 0..MaxSeed :
        \/ x' = [r \in Runs |-> rand(seed)]
        \/ \E bb \in 0..B-1, tt \in 0..T-1, cc \in 0..C-1 :
              x' = [r \in Runs |-> IF r = 1 THEN rand(seed) ELSE Flip(rand(seed), bb, tt, cc)]
    /\ pc' = "c4_alloc"
    /\ UNCHANGED <<xbow1, xbow2, xbow3, wei, tril, b, t, Out, attn, sums>>
    /\ UNCHANGED <<scale, x_scaled>>
    /\ UNCHANGED kern

\* ------------------------------------------------------ cell 4: Version 1
\* xbow1 = torch.zeros(B, T, C), and the loops begin.
Cell4Alloc ==
    /\ pc = "c4_alloc"
    /\ xbow1' = [r \in Runs |-> zeros3(B, T, C)]
    /\ b' = 0 /\ t' = 0
    /\ pc' = "c4_loop"
    /\ UNCHANGED <<x, xbow2, xbow3, wei, tril, Out, attn, sums>>
    /\ UNCHANGED <<scale, x_scaled>>
    /\ UNCHANGED kern

\* The slice taken one short, x[b, :t]: the mean then leaves out token t.
xprev_exclusive(xx, bb, tt) == SliceTo(xx[bb], tt)

\* xprev = x[b, :t+1]
xprev(xx, bb, tt) == SliceTo(xx[bb], tt + 1)

\* One iteration of the inner loop:
\* xbow1[b, t] = torch.mean(x[b, :t+1], dim=0)
Cell4Body ==
    /\ pc = "c4_loop"
    /\ xbow1' = [r \in Runs |->
                    [xbow1[r] EXCEPT ![b][t] = torch_mean0(xprev(x[r], b, t), C)]]
    /\ IF t + 1 < T THEN /\ t' = t + 1 /\ b' = b /\ pc' = "c4_loop"
       ELSE IF b + 1 < B THEN /\ t' = 0 /\ b' = b + 1 /\ pc' = "c4_loop"
       ELSE /\ UNCHANGED <<b, t>> /\ pc' = "c8_tril"
    /\ UNCHANGED <<x, xbow2, xbow3, wei, tril, Out, attn, sums>>
    /\ UNCHANGED <<scale, x_scaled>>
    /\ UNCHANGED kern

\* ------------------------------------------------------ cell 8: Version 2
\* wei = torch.tril(torch.ones(T, T))
Cell8Tril ==
    /\ pc = "c8_tril"
    /\ wei' = [r \in Runs |-> torch_tril(ones2(T, T))]
    /\ pc' = "c8_norm"
    /\ UNCHANGED <<x, xbow1, xbow2, xbow3, tril, b, t, Out, attn, sums>>
    /\ UNCHANGED <<scale, x_scaled>>
    /\ UNCHANGED kern

\* The division with keepdim left at its default, wei / wei.sum(dim=1).
Normalize_nokeepdim(w) == DivBroadcast(w, sum_dim1(w, FALSE))

\* wei / wei.sum(dim=1, keepdim=True)
Normalize(w) == DivBroadcast(w, sum_dim1(w, TRUE))

\* wei = wei / wei.sum(dim=1, keepdim=True)
Cell8Norm ==
    /\ pc = "c8_norm"
    /\ wei' = [r \in Runs |-> Normalize(wei[r])]
    /\ pc' = "c8_matmul"
    /\ UNCHANGED <<x, xbow1, xbow2, xbow3, tril, b, t, Out, attn, sums>>
    /\ UNCHANGED <<scale, x_scaled>>
    /\ UNCHANGED kern

\* xbow2 = wei @ x
Cell8MatMul ==
    /\ pc = "c8_matmul"
    /\ xbow2' = [r \in Runs |-> BMatMulBroadcast(wei[r], x[r])]
    /\ pc' = "c9"
    /\ UNCHANGED <<x, xbow1, xbow3, wei, tril, b, t, Out, attn, sums>>
    /\ UNCHANGED <<scale, x_scaled>>
    /\ UNCHANGED kern

\* cell 9: torch.allclose(xbow1, xbow2)
Cell9 ==
    /\ pc = "c9"
    /\ Out' = [Out EXCEPT ![9] = [r \in Runs |-> allclose(xbow1[r], xbow2[r])]]
    /\ pc' = "c11_tril"
    /\ UNCHANGED <<x, xbow1, xbow2, xbow3, wei, tril, b, t, attn, sums>>
    /\ UNCHANGED <<scale, x_scaled>>
    /\ UNCHANGED kern

\* ----------------------------------------------------- cell 11: Version 3
\* tril = torch.tril(torch.ones(T, T))
Cell11Tril ==
    /\ pc = "c11_tril"
    /\ tril' = [r \in Runs |-> torch_tril(ones2(T, T))]
    /\ pc' = "c11_zeros"
    /\ UNCHANGED <<x, xbow1, xbow2, xbow3, wei, b, t, Out, attn, sums>>
    /\ UNCHANGED <<scale, x_scaled>>
    /\ UNCHANGED kern

\* wei = torch.zeros(T, T)
Cell11Zeros ==
    /\ pc = "c11_zeros"
    /\ wei' = [r \in Runs |-> zeros2(T, T)]
    /\ pc' = "c11_mask"
    /\ UNCHANGED <<x, xbow1, xbow2, xbow3, tril, b, t, Out, attn, sums>>
    /\ UNCHANGED <<scale, x_scaled>>
    /\ UNCHANGED kern

\* The mask filled with 0 instead of -inf.
Mask_zero(w, tr) == masked_fill(w, EqZero(tr), Zero)

\* wei.masked_fill(tril == 0, float('-inf'))
Mask(w, tr) == masked_fill(w, EqZero(tr), NegInf)

\* wei = wei.masked_fill(tril == 0, float('-inf'))
Cell11Mask ==
    /\ pc = "c11_mask"
    /\ wei' = [r \in Runs |-> Mask(wei[r], tril[r])]
    /\ pc' = "c11_softmax"
    /\ UNCHANGED <<x, xbow1, xbow2, xbow3, tril, b, t, Out, attn, sums>>
    /\ UNCHANGED <<scale, x_scaled>>
    /\ UNCHANGED kern

\* wei = torch.softmax(wei, dim=1)
Cell11Softmax ==
    /\ pc = "c11_softmax"
    /\ wei' = [r \in Runs |-> softmax(wei[r])]
    /\ pc' = "c11_matmul"
    /\ UNCHANGED <<x, xbow1, xbow2, xbow3, tril, b, t, Out, attn, sums>>
    /\ UNCHANGED <<scale, x_scaled>>
    /\ UNCHANGED kern

\* xbow3 = wei @ x
Cell11MatMul ==
    /\ pc = "c11_matmul"
    /\ xbow3' = [r \in Runs |-> BMatMulBroadcast(wei[r], x[r])]
    /\ pc' = "c12"
    /\ UNCHANGED <<x, xbow1, xbow2, wei, tril, b, t, Out, attn, sums>>
    /\ UNCHANGED <<scale, x_scaled>>
    /\ UNCHANGED kern

\* cell 12: torch.allclose(xbow1, xbow3)
Cell12 ==
    /\ pc = "c12"
    /\ Out' = [Out EXCEPT ![12] = [r \in Runs |-> allclose(xbow1[r], xbow3[r])]]
    /\ pc' = "c14_query"
    /\ UNCHANGED <<x, xbow1, xbow2, xbow3, wei, tril, b, t, attn, sums>>
    /\ UNCHANGED <<scale, x_scaled>>
    /\ UNCHANGED kern

\* ----------------------------------------- cell 14: Version 4, self-attention
\* query = nn.Linear(C, head_size, bias=False)
Cell14Query ==
    /\ pc = "c14_query"
    /\ \E wseed \in 0..MaxWSeed : query' = Linear(C, head_size, wseed)
    /\ pc' = "c14_key"
    /\ UNCHANGED <<x, xbow1, xbow2, xbow3, wei, tril, b, t, Out, key, value, q, k, v, out, sums>>
    /\ UNCHANGED <<scale, x_scaled>>
    /\ UNCHANGED kern

\* key = nn.Linear(C, head_size, bias=False)
Cell14Key ==
    /\ pc = "c14_key"
    /\ \E wseed \in 0..MaxWSeed : key' = Linear(C, head_size, wseed)
    /\ pc' = "c14_value"
    /\ UNCHANGED <<x, xbow1, xbow2, xbow3, wei, tril, b, t, Out, query, value, q, k, v, out, sums>>
    /\ UNCHANGED <<scale, x_scaled>>
    /\ UNCHANGED kern

\* value = nn.Linear(C, head_size, bias=False)
Cell14Value ==
    /\ pc = "c14_value"
    /\ \E wseed \in 0..MaxWSeed : value' = Linear(C, head_size, wseed)
    /\ pc' = "c14_qkv"
    /\ UNCHANGED <<x, xbow1, xbow2, xbow3, wei, tril, b, t, Out, query, key, q, k, v, out, sums>>
    /\ UNCHANGED <<scale, x_scaled>>
    /\ UNCHANGED kern

\* q = query(x); k = key(x); v = value(x)
Cell14Project ==
    /\ pc = "c14_qkv"
    /\ q' = [r \in Runs |-> Forward(query, x[r])]
    /\ k' = [r \in Runs |-> Forward(key, x[r])]
    /\ v' = [r \in Runs |-> Forward(value, x[r])]
    /\ pc' = "c14_wei"
    /\ UNCHANGED <<x, xbow1, xbow2, xbow3, wei, tril, b, t, Out, query, key, value, out, sums>>
    /\ UNCHANGED <<scale, x_scaled>>
    /\ UNCHANGED kern

\* The scores left unscaled.
Scores_noscale(qq, kk) == BMatMul(qq, Transpose(kk))

\* q @ k.transpose(-1, -2) * head_size**-0.5: the product first, then the scale.
Scores(qq, kk) == Scale(BMatMul(qq, Transpose(kk)), InvSqrt(head_size))

\* wei = q @ k.transpose(-1, -2) * head_size**-0.5
Cell14Wei ==
    /\ pc = "c14_wei"
    /\ wei' = [r \in Runs |-> Scores(q[r], k[r])]
    /\ pc' = "c14_tril"
    /\ UNCHANGED <<x, xbow1, xbow2, xbow3, tril, b, t, Out, attn, sums>>
    /\ UNCHANGED <<scale, x_scaled>>
    /\ UNCHANGED kern

\* tril = torch.tril(torch.ones(T, T))
Cell14Tril ==
    /\ pc = "c14_tril"
    /\ tril' = [r \in Runs |-> torch_tril(ones2(T, T))]
    /\ pc' = "c14_mask"
    /\ UNCHANGED <<x, xbow1, xbow2, xbow3, wei, b, t, Out, attn, sums>>
    /\ UNCHANGED <<scale, x_scaled>>
    /\ UNCHANGED kern

\* No mask at all (an encoder block).
MaskBatch_none(ws, tr) == ws

\* wei.masked_fill(tril == 0, float('-inf')), the mask broadcast over B
MaskBatch(ws, tr) == masked_fill_batch(ws, EqZero(tr), NegInf)

\* wei = wei.masked_fill(tril == 0, float('-inf'))
Cell14Mask ==
    /\ pc = "c14_mask"
    /\ wei' = [r \in Runs |-> MaskBatch(wei[r], tril[r])]
    /\ pc' = "c14_softmax"
    /\ UNCHANGED <<x, xbow1, xbow2, xbow3, tril, b, t, Out, attn, sums>>
    /\ UNCHANGED <<scale, x_scaled>>
    /\ UNCHANGED kern

\* wei = F.softmax(wei, dim=-1)
Cell14Softmax ==
    /\ pc = "c14_softmax"
    /\ wei' = [r \in Runs |-> softmax_batch(wei[r])]
    /\ pc' = "c14_out"
    /\ UNCHANGED <<x, xbow1, xbow2, xbow3, tril, b, t, Out, attn, sums>>
    /\ UNCHANGED <<scale, x_scaled>>
    /\ UNCHANGED kern

\* out = wei @ v
Cell14Out ==
    /\ pc = "c14_out"
    /\ out' = [r \in Runs |-> BMatMul(wei[r], v[r])]
    /\ pc' = "c17_x"
    /\ UNCHANGED <<x, xbow1, xbow2, xbow3, wei, tril, b, t, Out, query, key, value, q, k, v, sums>>
    /\ UNCHANGED <<scale, x_scaled>>
    /\ UNCHANGED kern

\* --------------------------------- cell 17: softmax variance under scaling
\* The statements that bind x, scale and x_scaled; the variances, the
\* softmaxes and the plot that follow read them and bind nothing that a later
\* statement of the notebook reads.  Cell 16, between cells 14 and 17, binds
\* k, q, wei_noscale and wei_scale, which no later statement reads either.
\* torch.manual_seed(42); x = torch.randn(10,): the name x is rebound to a
\* 1-D tensor.
Cell17X ==
    /\ pc = "c17_x"
    /\ x' = [r \in Runs |-> randn(10, 42)]
    /\ pc' = "c17_scale"
    /\ UNCHANGED <<xbow1, xbow2, xbow3, wei, tril, b, t, Out, attn, sums>>
    /\ UNCHANGED <<scale, x_scaled>>
    /\ UNCHANGED kern

\* scale = list(range(1,6,1))[::-1]
Cell17Scale ==
    /\ pc = "c17_scale"
    /\ scale' = reversed(range(1, 6, 1))
    /\ pc' = "c17_stack"
    /\ UNCHANGED <<x, xbow1, xbow2, xbow3, wei, tril, b, t, Out, attn, sums>>
    /\ UNCHANGED x_scaled
    /\ UNCHANGED kern

\* x_scaled = torch.stack([x * i for i in scale])
Cell17Stack ==
    /\ pc = "c17_stack"
    /\ x_scaled' = [r \in Runs |-> stack([n \in DOMAIN scale |-> mul_scalar(x[r], scale[n])])]
    /\ pc' = "c19_wei"
    /\ UNCHANGED <<x, xbow1, xbow2, xbow3, wei, tril, b, t, Out, attn, sums>>
    /\ UNCHANGED scale
    /\ UNCHANGED kern

\* ------------------------------------------- cell 19: the keepdim tangent
\* wei = torch.tril(torch.ones(T, T))
Cell19Wei ==
    /\ pc = "c19_wei"
    /\ wei' = [r \in Runs |-> torch_tril(ones2(T, T))]
    /\ pc' = "c19_sums"
    /\ UNCHANGED <<x, xbow1, xbow2, xbow3, tril, b, t, Out, attn, sums>>
    /\ UNCHANGED <<scale, x_scaled>>
    /\ UNCHANGED kern

\* sum_incorrect = wei.sum(1); sum_correct = wei.sum(1, keepdim=True)
Cell19Sums ==
    /\ pc = "c19_sums"
    /\ sum_incorrect' = [r \in Runs |-> sum_dim1(wei[r], FALSE)]
    /\ sum_correct' = [r \in Runs |-> sum_dim1(wei[r], TRUE)]
    /\ pc' = "done"
    /\ UNCHANGED <<x, xbow1, xbow2, xbow3, wei, tril, b, t, Out, attn>>
    /\ UNCHANGED <<scale, x_scaled>>
    /\ UNCHANGED kern

Next ==
    \/ Cell2 \/ Cell4Alloc \/ Cell4Body
    \/ Cell8Tril \/ Cell8Norm \/ Cell8MatMul \/ Cell9
    \/ Cell11Tril \/ Cell11Zeros \/ Cell11Mask \/ Cell11Softmax \/ Cell11MatMul \/ Cell12
    \/ Cell14Query \/ Cell14Key \/ Cell14Value \/ Cell14Project \/ Cell14Wei
    \/ Cell14Tril \/ Cell14Mask \/ Cell14Softmax \/ Cell14Out
    \/ Cell17X \/ Cell17Scale \/ Cell17Stack
    \/ Cell19Wei \/ Cell19Sums

Spec == Init /\ [][Next]_vars

\* ------------------------------------- the kernel under a free cell order
\* The code cell below cell c in the notebook (below the top when c = 0); 0
\* below the last one.
NextCell(c) ==
    LET below == {d \in CodeCells : d > c}
    IN IF below = {} THEN 0 ELSE CHOOSE d \in below : \A e \in below : d <= e

\* The user executes any code cell, in any order, any number of times.
RunCell(c) ==
    /\ nruns < MaxRuns
    /\ LET res == Exec(c, 1, env, {})
       IN /\ env' = res.env
          /\ lastForeign' = res.foreign
          /\ lastError' = res.error
    /\ lastCell' = c
    /\ nruns' = nruns + 1
    /\ inOrder' = (inOrder /\ c = NextCell(lastCell))
    /\ UNCHANGED data

NextKernel == \E c \in CodeCells : RunCell(c)

SpecKernel == Init /\ [][NextKernel]_vars
\* ================================================================ claims
\* The statements in the order a top-to-bottom run executes them.
Labels == << "c2", "c4_alloc", "c4_loop", "c8_tril", "c8_norm", "c8_matmul", "c9",
             "c11_tril", "c11_zeros", "c11_mask", "c11_softmax", "c11_matmul", "c12",
             "c14_query", "c14_key", "c14_value", "c14_qkv", "c14_wei", "c14_tril",
             "c14_mask", "c14_softmax", "c14_out", "c17_x", "c17_scale", "c17_stack",
             "c19_wei", "c19_sums", "done" >>
At(l) == CHOOSE i \in DOMAIN Labels : Labels[i] = l
\* Statement l has been executed.
Done(l) == At(pc) > At(l)
\* The next statement lies in first..last.
Between(first, last) == At(first) <= At(pc) /\ At(pc) <= At(last)

Bs == 0..B-1
Ts == 0..T-1
Cs == 0..C-1
Hs == 0..head_size-1

\* wei holds the final weights of Version 2, of Version 3, of Version 4.
Wei2Final == Between("c8_matmul", "c11_zeros")
Wei3Final == Between("c11_matmul", "c14_wei")
Wei4Final == Between("c14_out", "c19_wei")

\* x holds the (B, T, C) input of cell 2: cell 17 has not rebound it yet.
XIsInput == Done("c2") /\ ~Done("c17_x")

\* Sum of x[bb][s][cc] over s = 0..tt.
PrefixSum(xx, bb, tt, cc) == SumRange([s \in 0..tt |-> xx[bb][s][cc]], 0, tt)

\* 1/(i+1) on and below the diagonal, 0 above it.
Uniform(i, j) == IF j <= i THEN Rat(1, i + 1) ELSE Zero

\* C1: once Version 2 has run, xbow2 equals the nested-loop result xbow1 at
\* every index (b, t, c), for every input.
C1_Xbow2EqualsXbow1 ==
    Done("c8_matmul") =>
        \A r \in Runs, bb \in Bs, tt \in Ts, cc \in Cs :
            xbow2[r][bb][tt][cc] = xbow1[r][bb][tt][cc]

C1_Witness ==
    /\ Done("c8_matmul")
    /\ \E bb \in Bs, cc \in Cs : xbow2[1][bb][T-1][cc] \notin {Zero, One}

\* C2: once Version 3 has run, xbow3 equals the nested-loop result xbow1 at
\* every index (b, t, c), for every input.
C2_Xbow3EqualsXbow1 ==
    Done("c11_matmul") =>
        \A r \in Runs, bb \in Bs, tt \in Ts, cc \in Cs :
            xbow3[r][bb][tt][cc] = xbow1[r][bb][tt][cc]

C2_Witness ==
    /\ Done("c11_matmul")
    /\ \E bb \in Bs, cc \in Cs : xbow3[1][bb][T-1][cc] \notin {Zero, One}

\* C3: after the Version 1 loops, xbow1[b,t,c] is the mean of x[b,s,c] over
\* s = 0..t, token t included (t+1 tokens): (t+1) * xbow1[b,t,c] is the sum of
\* those entries; xbow1[b,0] = x[b,0], and xbow1[b,1] is the mean of the
\* first two tokens.
C3_Xbow1IsPrefixMean ==
    (Done("c4_loop") /\ XIsInput) =>
        \A r \in Runs, bb \in Bs, cc \in Cs :
            /\ \A tt \in Ts :
                Mul(Rat(tt + 1, 1), xbow1[r][bb][tt][cc]) = PrefixSum(x[r], bb, tt, cc)
            /\ xbow1[r][bb][0][cc] = x[r][bb][0][cc]
            /\ T >= 2 =>
                Add(xbow1[r][bb][1][cc], xbow1[r][bb][1][cc])
                    = Add(x[r][bb][0][cc], x[r][bb][1][cc])

C3_Witness ==
    /\ Done("c4_loop") /\ XIsInput
    /\ \E bb \in Bs, cc \in Cs :
        /\ x[1][bb][T-1][cc] # xbow1[1][bb][T-1][cc]
        /\ xbow1[1][bb][T-1][cc] \notin {Zero, One}

\* C4: the weights of Version 3 (future positions filled with -inf, then a
\* row-wise softmax) and the weights of Version 2 (the triangular ones matrix
\* divided by its row sums) are the same matrix: entry (t, s) is 1/(t+1) when
\* s <= t and 0 when s > t.
C4_MaskedSoftmaxIsRowNormalisedTril ==
    (Wei2Final \/ Wei3Final) =>
        \A r \in Runs, i \in Ts, j \in Ts : wei[r][i][j] = Uniform(i, j)

C4_Witness ==
    /\ Wei3Final
    /\ wei[1][T-1][0] = Rat(1, T)
    /\ wei[1][0][T-1] = Zero

\* Inputs 1 and 2 agree on the tokens 0..tt of batch element bb.
AgreeUpTo(bb, tt) == \A s \in 0..tt : x[1][bb][s] = x[2][bb][s]

\* C5: causality.  Two inputs that agree on x[b, 0..t] give the same output at
\* (b, t) in xbow1, xbow2, xbow3 and out, and the final weight of every future
\* position s > t is zero in Versions 2, 3 and 4.
C5_Causality ==
    /\ \A bb \in Bs, tt \in Ts :
        (XIsInput /\ AgreeUpTo(bb, tt)) =>
            /\ Done("c4_loop") => xbow1[1][bb][tt] = xbow1[2][bb][tt]
            /\ Done("c8_matmul") => xbow2[1][bb][tt] = xbow2[2][bb][tt]
            /\ Done("c11_matmul") => xbow3[1][bb][tt] = xbow3[2][bb][tt]
            /\ Done("c14_out") => out[1][bb][tt] = out[2][bb][tt]
    /\ (Wei2Final \/ Wei3Final) =>
        \A r \in Runs, i \in Ts, j \in Ts : j > i => wei[r][i][j] = Zero
    /\ Wei4Final =>
        \A r \in Runs, bb \in Bs, i \in Ts, j \in Ts : j > i => wei[r][bb][i][j] = Zero

\* The inputs differ at a token s > 0 only, and the outputs at s differ.
C5_Witness ==
    /\ Done("c14_out") /\ XIsInput
    /\ \E bb \in Bs, s \in 1..T-1 :
        /\ AgreeUpTo(bb, s - 1)
        /\ x[1][bb][s] # x[2][bb][s]
        /\ out[1][bb][s] # out[2][bb][s]
        /\ xbow1[1][bb][s] # xbow1[2][bb][s]

\* Every row of m holds finite non-negative entries that sum to one.
RowsAreDistributions(m) ==
    \A i \in DOMAIN m :
        /\ \A j \in DOMAIN m[i] : IsFinite(m[i][j]) /\ m[i][j][1] >= 0
        /\ SumRange(m[i], 0, Rows(m[i]) - 1) = One

\* C6: every row of the final weight matrix of Versions 2 and 3, and of every
\* batch element's weight matrix in Version 4, is non-negative and sums to one.
C6_WeightRowsSumToOne ==
    /\ (Wei2Final \/ Wei3Final) => \A r \in Runs : RowsAreDistributions(wei[r])
    /\ Wei4Final => \A r \in Runs, bb \in Bs : RowsAreDistributions(wei[r][bb])

\* A Version 4 row whose weights are not the uniform ones.
C6_Witness ==
    /\ Wei4Final
    /\ \E bb \in Bs, i \in Ts, j \in Ts : j <= i /\ wei[1][bb][i][j] # Uniform(i, j)

\* The dot product of query i and key j of batch element bb.
QK(r, bb, i, j) == SumRange([h \in Hs |-> Mul(q[r][bb][i][h], k[r][bb][j][h])], 0, head_size - 1)

\* C7: in the self-attention cell the steps run in the order dot product,
\* scale, mask, softmax, multiply by v.  Before the mask is applied wei holds
\* the dot products already scaled (by 1/4 = 16**-0.5) and no -inf; when
\* softmax is about to run the future positions are -inf and the others still
\* the scaled products; after softmax, out is computed from the normalised
\* weights.
C7_ScaleThenMaskThenSoftmax ==
    /\ Between("c14_tril", "c14_mask") =>
        \A r \in Runs, bb \in Bs, i \in Ts, j \in Ts :
            /\ IsFinite(wei[r][bb][i][j])
            /\ Mul(Rat(4, 1), wei[r][bb][i][j]) = QK(r, bb, i, j)
    /\ pc = "c14_softmax" =>
        \A r \in Runs, bb \in Bs, i \in Ts, j \in Ts :
            /\ j > i => wei[r][bb][i][j] = NegInf
            /\ j <= i => Mul(Rat(4, 1), wei[r][bb][i][j]) = QK(r, bb, i, j)
    /\ pc = "c14_out" =>
        \A r \in Runs, bb \in Bs : RowsAreDistributions(wei[r][bb])
    /\ pc = "c19_wei" =>
        \A r \in Runs, bb \in Bs, i \in Ts, h \in Hs :
            out[r][bb][i][h] =
                SumRange([s \in Ts |-> Mul(wei[r][bb][i][s], v[r][bb][s][h])], 0, i)
    /\ pc \in {"c14_wei", "c14_tril", "c14_mask", "c14_softmax", "c14_out"} =>
        /\ q # None /\ k # None /\ v # None
        /\ out = None

\* Softmax is about to run on scores that are scaled, non-zero and masked.
C7_Witness ==
    /\ pc = "c14_softmax"
    /\ \E bb \in Bs, i \in Ts, j \in Ts :
        /\ j <= i /\ wei[1][bb][i][j] \in {Rat(1, 4), Rat(-1, 4)}
        /\ wei[1][bb][0][T-1] = NegInf

\* C8 as stated: every name the cell executed last read was bound inside that
\* same cell, whichever cells ran before it, and so it never fails for a name
\* another cell should have bound.
C8_EveryCellSelfContained ==
    lastCell # 0 => (lastForeign = {} /\ ~lastError)

\* The names cell c reads before binding them itself.
External(c) ==
    { n \in Names : \E i \in DOMAIN Stmts(c) :
        /\ n \in Stmts(c)[i].r
        /\ \A jj \in 1..(i - 1) : n \notin Stmts(c)[jj].w }

\* C8 amended: only cell 2 is self-contained.  Every other code cell reads
\* names that it does not bind itself, so what it does depends on the cells
\* executed before it: in any execution order it stops with a NameError
\* exactly when one of those names is still unbound, and otherwise it runs on
\* bindings that other cells made.
C8_OnlyCell2SelfContained ==
    /\ lastCell = 2 => (lastForeign = {} /\ ~lastError)
    /\ lastCell \notin {0, 2} =>
        /\ External(lastCell) # {}
        /\ lastError <=> \E n \in External(lastCell) : env[n] = 0
        /\ ~lastError => lastForeign # {}

\* Cell 4 runs on the x, B, T, C and torch that cell 2 bound.
C8_Witness ==
    /\ lastCell = 4 /\ ~lastError
    /\ {"x", "B", "T", "C", "torch"} \subseteq lastForeign
    /\ env["x"] = 2

\* C9: the one (T, T) weight matrix of Versions 2 and 3 is applied to each
\* batch element separately, xbow2[b] = wei @ x[b] and xbow3[b] = wei @ x[b];
\* and in xbow2, xbow3 and out the output of batch element b is the same for
\* two inputs that agree on x[b], whatever the other batch elements hold.
C9_BatchIndependence ==
    /\ Between("c9", "c11_zeros") =>
        \A r \in Runs, bb \in Bs, tt \in Ts, cc \in Cs :
            xbow2[r][bb][tt][cc] =
                SumRange([s \in Ts |-> Mul(wei[r][tt][s], x[r][bb][s][cc])], 0, T - 1)
    /\ Between("c12", "c14_wei") =>
        \A r \in Runs, bb \in Bs, tt \in Ts, cc \in Cs :
            xbow3[r][bb][tt][cc] =
                SumRange([s \in Ts |-> Mul(wei[r][tt][s], x[r][bb][s][cc])], 0, T - 1)
    /\ \A bb \in Bs :
        (XIsInput /\ x[1][bb] = x[2][bb]) =>
            /\ Done("c8_matmul") => xbow2[1][bb] = xbow2[2][bb]
            /\ Done("c11_matmul") => xbow3[1][bb] = xbow3[2][bb]
            /\ Done("c14_out") => out[1][bb] = out[2][bb]

\* The inputs differ in one batch element only, whose outputs differ.
C9_Witness ==
    /\ Done("c14_out") /\ XIsInput
    /\ \E bb \in Bs :
        /\ x[1][bb] # x[2][bb]
        /\ out[1][bb] # out[2][bb]
        /\ xbow2[1][bb] # xbow2[2][bb]
        /\ \A other \in Bs \ {bb} : x[1][other] = x[2][other] /\ out[1][other] = out[2][other]

\* C10: for the lower-triangular ones matrix wei, both sums hold 1..T; dividing
\* by the (T, 1) column sum_correct divides entry (i, j) by the sum of row i
\* and gives rows that sum to one; dividing by the (T) vector sum_incorrect
\* divides entry (i, j) by the sum of row j, and for T >= 2 the rows do not
\* all sum to one.
C10_KeepdimBroadcast ==
    pc = "done" =>
        \A r \in Runs :
            LET good == DivBroadcast(wei[r], sum_correct[r])
                bad == DivBroadcast(wei[r], sum_incorrect[r])
            IN /\ sum_incorrect[r].shape = <<T>>
               /\ sum_correct[r].shape = <<T, 1>>
               /\ \A i \in Ts : /\ sum_incorrect[r].data[i] = Rat(i + 1, 1)
                                /\ sum_correct[r].data[i][0] = Rat(i + 1, 1)
               /\ \A i \in Ts, j \in Ts :
                    /\ good[i][j] = (IF j <= i THEN Rat(1, i + 1) ELSE Zero)
                    /\ bad[i][j] = (IF j <= i THEN Rat(1, j + 1) ELSE Zero)
               /\ RowsAreDistributions(good)
               /\ T >= 2 => ~RowsAreDistributions(bad)

C10_Witness ==
    /\ pc = "done"
    /\ T >= 2
    /\ DivBroadcast(wei[1], sum_incorrect[1])[T-1][0] = One
    /\ DivBroadcast(wei[1], sum_correct[1])[T-1][0] = Rat(1, T)
    /\ DivBroadcast(wei[1], sum_incorrect[1])[T-1][T-1] = Rat(1, T)

\* The 3-D tensor t3 has shape s = (s[1], s[2], s[3]).
HasShape(t3, s) ==
    /\ DOMAIN t3 = 0..s[1]-1
    /\ \A i \in DOMAIN t3 :
        /\ DOMAIN t3[i] = 0..s[2]-1
        /\ \A j \in DOMAIN t3[i] : DOMAIN t3[i][j] = 0..s[3]-1

\* The statements of the self-attention cell applied to an input xx of n
\* tokens, with the layers qw, kw and vw.
SelfAttention(xx, n, qw, kw, vw) ==
    BMatMul(softmax_batch(MaskBatch(Scores(Forward(qw, xx), Forward(kw, xx)),
                                    torch_tril(ones2(n, n)))),
            Forward(vw, xx))

\* The output of the self-attention cell for an input of the notebook's own
\* sizes B, T, C = 4, 8, 2.
NotebookOut ==
    SelfAttention(zeros3(4, 8, 2), 8,
                  Linear(2, head_size, 0), Linear(2, head_size, 1), Linear(2, head_size, 0))

\* C11: xbow1, xbow2 and xbow3 have the shape (B, T, C) of the input x; in
\* Version 4 the weights wei have shape (B, T, T) and the output out has shape
\* (B, T, head_size); for B, T, C = 4, 8, 2 and head_size = 16 out has shape
\* (4, 8, 16).  The last part does not depend on the state and is evaluated in
\* the initial state only.
C11_OutputShapes ==
    /\ XIsInput => \A r \in Runs : HasShape(x[r], <<B, T, C>>)
    /\ Done("c4_alloc") => \A r \in Runs : HasShape(xbow1[r], <<B, T, C>>)
    /\ Done("c8_matmul") => \A r \in Runs : HasShape(xbow2[r], <<B, T, C>>)
    /\ Done("c11_matmul") => \A r \in Runs : HasShape(xbow3[r], <<B, T, C>>)
    /\ Between("c14_tril", "c19_wei") => \A r \in Runs : HasShape(wei[r], <<B, T, T>>)
    /\ Done("c14_out") => \A r \in Runs : HasShape(out[r], <<B, T, head_size>>)
    /\ pc = "c2" => HasShape(NotebookOut, <<4, 8, 16>>)

\* The self-attention cell has run on the input: out is 16 wide, x is not.
C11_Witness ==
    /\ pc = "c17_x"
    /\ C # head_size
    /\ HasShape(x[1], <<B, T, C>>)
    /\ HasShape(xbow3[1], <<B, T, C>>)
    /\ HasShape(wei[1], <<B, T, T>>)
    /\ HasShape(out[1], <<B, T, 16>>)

\* Every name that some statement of some code cell reads.
NamesRead ==
    { n \in Names : \E c \in CodeCells : \E i \in DOMAIN Stmts(c) : n \in Stmts(c)[i].r }

\* C12: while the code cells are executed once each from top to bottom in a
\* fresh kernel, no cell stops on an unbound name: every name the cell
\* executed last read before binding it itself had been bound by a cell above
\* it, and every other name it read it had bound itself, earlier in the cell.
C12_TopToBottomBindsBeforeReads ==
    (inOrder /\ lastCell # 0) =>
        /\ ~lastError
        /\ lastForeign = External(lastCell)
        /\ \A n \in External(lastCell) : env[n] \in CodeCells /\ env[n] < lastCell
        /\ \A c \in CodeCells : c <= lastCell =>
                \A n \in External(c) : \E d \in CodeCells :
                    d < c /\ \E i \in DOMAIN Stmts(d) : n \in Stmts(d)[i].w

\* The whole notebook has run top to bottom; its last cell read names that
\* cell 2 had bound, and the names the claim lists are all read somewhere.
C12_Witness ==
    /\ inOrder /\ ~lastError
    /\ nruns = Cardinality(CodeCells)
    /\ lastCell = 19
    /\ {"torch", "T"} \subseteq lastForeign
    /\ env["torch"] = 2 /\ env["F"] = 14 /\ env["x"] = 17 /\ env["wei"] = 19
    /\ {"torch", "B", "T", "C", "x", "xbow1", "head_size", "F", "nn", "wei", "tril",
        "q", "k", "v"} \subseteq NamesRead

\* x_scaled holds one row per element of scale, row n being x * scale[n].
OneRowPerFactor(r) ==
    /\ DOMAIN x_scaled[r] = DOMAIN scale
    /\ \A n \in DOMAIN scale :
        /\ DOMAIN x_scaled[r][n] = DOMAIN x[r]
        /\ \A j \in DOMAIN x[r] : x_scaled[r][n][j] = Mul(x[r][j], Rat(scale[n], 1))

\* C13 as stated: in the softmax-variance cell the list scale is the range of
\* integers from 1 to 10 with step size 2, that is 1, 3, 5, 7, 9, and x_scaled
\* has one row x * i per element i of that list.
C13_ScaleIsOneToTenStepTwo ==
    /\ Done("c17_scale") => scale = range(1, 10, 2)
    /\ Between("c19_wei", "done") => \A r \in Runs : OneRowPerFactor(r)

\* What the cell does: scale is 5, 4, 3, 2, 1, and x_scaled has the five rows
\* x * 5, ..., x * 1 of ten entries each, not all zero.
C13_Witness ==
    /\ pc = "c19_wei"
    /\ scale = [i \in 0..4 |-> 5 - i]
    /\ scale # range(1, 10, 2)
    /\ OneRowPerFactor(1)
    /\ Cardinality(DOMAIN x_scaled[1]) = 5
    /\ Cardinality(DOMAIN x_scaled[1][0]) = 10
    /\ \E j \in DOMAIN x[1] : x[1][j] # Zero /\ x_scaled[1][0][j] = Mul(x[1][j], Rat(5, 1))

\* The row sums of m that Version 2 divides by.
Divisor(m) == sum_dim1(m, TRUE).data

\* C14: the causal mask keeps the diagonal, so every row t has an unmasked
\* position s = t.  No row passed to softmax, in Version 3 or in Version 4, is
\* entirely -inf, and softmax returns no nan; the row sums that Version 2
\* divides by are t + 1 for row t, never zero.  The same holds for the mask of
\* every size n from 1 on (checked up to T + 2, in the initial state, since it
\* does not depend on the state).
C14_EveryRowKeepsItsDiagonal ==
    /\ Done("c11_tril") => \A r \in Runs, i \in Ts : tril[r][i][i] = One
    /\ pc = "c8_norm" =>
        \A r \in Runs, i \in Ts :
            /\ wei[r][i][i] = One
            /\ Divisor(wei[r])[i][0] = Rat(i + 1, 1)
            /\ Divisor(wei[r])[i][0] # Zero
    /\ pc = "c11_softmax" =>
        \A r \in Runs, i \in Ts :
            /\ IsFinite(wei[r][i][i])
            /\ \E j \in Ts : wei[r][i][j] # NegInf
    /\ pc = "c14_softmax" =>
        \A r \in Runs, bb \in Bs, i \in Ts :
            /\ IsFinite(wei[r][bb][i][i])
            /\ \E j \in Ts : wei[r][bb][i][j] # NegInf
    /\ pc \in {"c8_matmul", "c11_matmul"} =>
        \A r \in Runs, i \in Ts, j \in Ts : IsFinite(wei[r][i][j])
    /\ pc = "c14_out" =>
        \A r \in Runs, bb \in Bs, i \in Ts, j \in Ts : IsFinite(wei[r][bb][i][j])
    /\ pc = "c2" =>
        \A n \in 1..(T + 2) :
            LET m == torch_tril(ones2(n, n))
            IN \A i \in 0..n-1 :
                /\ m[i][i] = One
                /\ Divisor(m)[i][0] = Rat(i + 1, 1)
                /\ IsFinite(Mask(zeros2(n, n), m)[i][i])

\* Softmax is about to run on rows whose first one has a single unmasked
\* position, the diagonal one.
C14_Witness ==
    /\ pc = "c14_softmax"
    /\ T >= 2
    /\ \A bb \in Bs :
        /\ IsFinite(wei[1][bb][0][0])
        /\ \A j \in 1..T-1 : wei[1][bb][0][j] = NegInf
    /\ tril[1][0][0] = One /\ tril[1][0][T-1] = Zero
====
